---- MODULE Spec2Model ----
(***************************************************************************)
(* Model of the gopi application lifecycle (app.go): NewAppInstance,       *)
(* AppInstance.setModuleInstance, AppInstance.Run and AppInstance.Close.   *)
(*                                                                         *)
(* Spec     : building an instance from a configuration and closing it.    *)
(* SpecRun  : one call of Run on a successfully built instance, with the   *)
(*            main task, the background goroutines and the coordinator     *)
(*            goroutine interleaved.                                       *)
(* FairSpecRun : SpecRun with the Go scheduler's fairness (every runnable  *)
(*            goroutine eventually runs).                                  *)
(* SpecConfig : NewAppConfig with the dependency resolver, then the build. *)
(* SpecE2E, FairSpecE2E : configuration, build, Run and Close of one       *)
(*            registry of three modules.                                   *)
(* SpecMdns, FairSpecMdns : the mdns tool, MainLoop with BrowseLoop and    *)
(*            EventLoop and the mutex around the browse context.           *)
(* SpecPPI  : util.PixelsPerInch applied to bounded value strings.         *)
(***************************************************************************)
EXTENDS Integers, Sequences, FiniteSets, TLC

VARIABLES
    config,      \* the AppConfig handed to NewAppInstance
    this,        \* the AppInstance: modules, byname, bytype, byorder, Logger, Hardware
    pc,          \* position of the controlling thread in NewAppInstance / Close
    idx,         \* loop index of NewAppInstance over config.Modules
    once,        \* sync.Once of NewAppInstance already fired
    result,      \* error returned by NewAppInstance ("none" while not returned)
    newCalls,    \* module.New invocations, in order (module ids)
    closeCalls,  \* Driver.Close invocations, in order (driver ids)
    closeRet,    \* value returned by the last AppInstance.Close
    closeErrs,   \* drivers whose Close error was logged by AppInstance.Close
    lastReg,     \* outcome of the last setModuleInstance call
    hookRet,     \* what the last module.New call returned: module, driver, err
    requires,    \* the registry: Requires of every registered module
    names,       \* the module names handed to NewAppConfig
    cfgErr,      \* error NewAppConfig met while resolving ("none" before it ran)
    runpc,       \* position of the controlling thread in Run
    hookIdx,     \* loop index of Run over this.modules
    runCalls,    \* module.Run invocations, in order: <<module, driver>>
    numBg,       \* len(background_tasks)
    mainKind,    \* behaviour of the main task
    mainErr,     \* error the main task returns
    bgKind,      \* behaviour of each background task
    mainpc,      \* position of the main task
    bgpc,        \* position of each background task
    coord,       \* coordinator goroutine: -1 not started, 0 blocked on channels[0],
                 \* i blocked sending on channels[i], numBg+1 finished
    wg,          \* sync.WaitGroup counter
    logged,      \* background tasks whose error was logged
    runResult,   \* error returned by Run ("none" while not returned)
    lock,        \* mdns tool: the sync.Mutex, "free" or the function holding it
    gctx,        \* mdns tool: the context SetContext stored
    browseCtx,   \* mdns tool: the context Browse was called with
    waitRet,     \* what ended WaitForSignalOrTimeout ("none" while it has not)
    w,           \* PixelsPerInch: screen width
    h,           \* PixelsPerInch: screen height
    value,       \* PixelsPerInch: the value string, a sequence of characters
    ppiRet       \* what PixelsPerInch returned: ppi and err

buildVars == <<config, this, pc, idx, once, result, newCalls, closeCalls, closeRet,
              closeErrs, lastReg, hookRet>>
cfgVars == <<requires, names, cfgErr>>
runVars == <<runpc, hookIdx, runCalls, numBg, mainKind, mainErr, bgKind, mainpc, bgpc,
             coord, wg, logged, runResult>>
toolVars == <<lock, gctx, browseCtx, waitRet, w, h, value, ppiRet>>
vars == <<config, this, pc, idx, once, result, newCalls, closeCalls, closeRet, closeErrs,
          lastReg, hookRet, requires, names, cfgErr,
          runpc, hookIdx, runCalls, numBg, mainKind, mainErr, bgKind, mainpc, bgpc,
          coord, wg, logged, runResult,
          lock, gctx, browseCtx, waitRet, w, h, value, ppiRet>>

(***************************************************************************)
(* Bounds                                                                  *)
(***************************************************************************)
MaxModules == 3      \* longest config.Modules in Spec
MaxRunModules == 3   \* longest this.modules in SpecRun
MaxBg == 2           \* most background tasks handed to Run
MaxRequires == 2     \* longest Requires list of a registered module
MaxNames == 2        \* most module names handed to NewAppConfig
MaxValueLen == 3     \* longest value string handed to PixelsPerInch

(***************************************************************************)
(* Module descriptors.  A *Module is its index in ModuleTable; the driver  *)
(* a module's New hook returns is named by the same index.                 *)
(***************************************************************************)
NIL == 0

ModuleTable == <<
    [Name |-> "logger", Type |-> "LOGGER",   New |-> TRUE,  Run |-> FALSE],
    [Name |-> "hw",     Type |-> "HARDWARE", New |-> TRUE,  Run |-> TRUE],
    [Name |-> "hw2",    Type |-> "HARDWARE", New |-> TRUE,  Run |-> FALSE],
    [Name |-> "svc",    Type |-> "SERVICE",  New |-> TRUE,  Run |-> FALSE],
    [Name |-> "rpc",    Type |-> "SERVICE",  New |-> TRUE,  Run |-> TRUE],
    [Name |-> "hw",     Type |-> "OTHER",    New |-> TRUE,  Run |-> FALSE],
    [Name |-> "hook",   Type |-> "NONE",     New |-> FALSE, Run |-> TRUE],
    [Name |-> "bus",    Type |-> "OTHER",    New |-> TRUE,  Run |-> FALSE],
    [Name |-> "sensor", Type |-> "OTHER",    New |-> TRUE,  Run |-> TRUE],
    [Name |-> "linux/filepoll", Type |-> "OTHER", New |-> TRUE, Run |-> FALSE],
    [Name |-> "linux/gpio",     Type |-> "GPIO",  New |-> TRUE, Run |-> FALSE] >>

ModuleIds == 1..Len(ModuleTable)

LoggerModule == 1

\* the modules of package linux (docs, lines 710-735)
FilePollModule == 10

GPIOModule == 11

\* Requires of the modules whose registration is in the source
ModuleRequires(m) == IF m = GPIOModule THEN <<"linux/filepoll">> ELSE <<>>

\* the names a module's New hook hands to app.ModuleInstance, one for each
\* entry of its Requires; the hook asserts the type of what it gets without
\* a check (docs, line 732)
HookLookups(m) == IF m = GPIOModule THEN <<"filepoll/linux">> ELSE <<>>

\* mutant: SERVICE is registered by type as well
IsSingletonType_ServiceToo(t) == t # "NONE" /\ t # "OTHER" /\ t # "CLIENT"

\* line 435: the types that are not registered by type
IsSingletonType(t) == t # "NONE" /\ t # "OTHER" /\ t # "SERVICE" /\ t # "CLIENT"

EmptyMap == [k \in {} |-> NIL]

MapPut(f, k, v) == [x \in (DOMAIN f) \cup {k} |-> IF x = k THEN v ELSE f[x]]

\* reading a Go map: the zero value when the key is absent
MapGet(f, k) == IF k \in DOMAIN f THEN f[k] ELSE NIL

RECURSIVE Reverse(_)
Reverse(s) == IF s = <<>> THEN <<>> ELSE Append(Reverse(Tail(s)), Head(s))

SeqRange(s) == {s[i] : i \in 1..Len(s)}

IsInjective(s) == \A i, j \in 1..Len(s) : s[i] = s[j] => i = j

\* the module lists a configuration can carry: distinct modules
ModuleLists(n) == {s \in UNION {[1..k -> ModuleIds] : k \in 0..n} : IsInjective(s)}

(***************************************************************************)
(* AppInstance.ModuleInstance                                              *)
(***************************************************************************)
\* the reserved words and the module type each stands for (line 367)
module_name_map == [name \in {"logger"} |-> "LOGGER"]

\* lines 369-378: the driver registered under a reserved word's type or under
\* a name, nil when there is none
ModuleInstance(inst, name) ==
    IF name \in DOMAIN module_name_map
    THEN MapGet(inst.bytype, module_name_map[name])
    ELSE MapGet(inst.byname, name)

(***************************************************************************)
(* NewAppInstance                                                          *)
(***************************************************************************)
\* lines 154-175: the fresh instance
NewInstance(mods) ==
    [modules |-> mods, byname |-> EmptyMap, bytype |-> EmptyMap, byorder |-> <<>>,
     Logger |-> NIL, Hardware |-> NIL, GPIO |-> NIL]

NoInstance == NewInstance(<<>>)

\* lines 448-497: the typed convenience fields; a failed cast stores nil
SetTyped(inst, t, driver, castok) ==
    IF t = "LOGGER" THEN [inst EXCEPT !.Logger = IF castok THEN driver ELSE NIL]
    ELSE IF t = "HARDWARE" THEN [inst EXCEPT !.Hardware = IF castok THEN driver ELSE NIL]
    ELSE IF t = "GPIO" THEN [inst EXCEPT !.GPIO = IF castok THEN driver ELSE NIL]
    ELSE inst

HasTypedField(t) == t \in {"LOGGER", "HARDWARE", "GPIO"}

\* mutant: the driver is put at the head of the creation-order list
setModuleInstance_Prepend(inst, m, driver, castok) ==
    LET mod == ModuleTable[m] IN
    IF mod.Name \in DOMAIN inst.byname
    THEN [inst |-> inst, err |-> "DuplicateName"]
    ELSE
      LET i1 == [inst EXCEPT !.byname = MapPut(@, mod.Name, driver)] IN
      IF IsSingletonType(mod.Type) /\ mod.Type \in DOMAIN i1.bytype
      THEN [inst |-> i1, err |-> "DuplicateType"]
      ELSE
        LET i2 == IF IsSingletonType(mod.Type)
                  THEN [i1 EXCEPT !.bytype = MapPut(@, mod.Type, driver)]
                  ELSE i1
            i3 == [i2 EXCEPT !.byorder = <<driver>> \o @]
            i4 == SetTyped(i3, mod.Type, driver, castok)
        IN [inst |-> i4,
            err |-> IF HasTypedField(mod.Type) /\ ~castok THEN "BadCast" ELSE "nil"]

\* mutant: the driver is appended to the creation-order list before the
\* by-name and by-type checks
setModuleInstance_AppendFirst(inst, m, driver, castok) ==
    LET mod == ModuleTable[m]
        i0 == [inst EXCEPT !.byorder = Append(@, driver)]
    IN
    IF mod.Name \in DOMAIN i0.byname
    THEN [inst |-> i0, err |-> "DuplicateName"]
    ELSE
      LET i1 == [i0 EXCEPT !.byname = MapPut(@, mod.Name, driver)] IN
      IF IsSingletonType(mod.Type) /\ mod.Type \in DOMAIN i1.bytype
      THEN [inst |-> i1, err |-> "DuplicateType"]
      ELSE
        LET i2 == IF IsSingletonType(mod.Type)
                  THEN [i1 EXCEPT !.bytype = MapPut(@, mod.Type, driver)]
                  ELSE i1
            i4 == SetTyped(i2, mod.Type, driver, castok)
        IN [inst |-> i4,
            err |-> IF HasTypedField(mod.Type) /\ ~castok THEN "BadCast" ELSE "nil"]

\* lines 423-500
setModuleInstance(inst, m, driver, castok) ==
    LET mod == ModuleTable[m] IN
    IF mod.Name \in DOMAIN inst.byname
    THEN [inst |-> inst, err |-> "DuplicateName"]
    ELSE
      LET i1 == [inst EXCEPT !.byname = MapPut(@, mod.Name, driver)] IN
      IF IsSingletonType(mod.Type) /\ mod.Type \in DOMAIN i1.bytype
      THEN [inst |-> i1, err |-> "DuplicateType"]
      ELSE
        LET i2 == IF IsSingletonType(mod.Type)
                  THEN [i1 EXCEPT !.bytype = MapPut(@, mod.Type, driver)]
                  ELSE i1
            i3 == [i2 EXCEPT !.byorder = Append(@, driver)]
            i4 == SetTyped(i3, mod.Type, driver, castok)
        IN [inst |-> i4,
            err |-> IF HasTypedField(mod.Type) /\ ~castok THEN "BadCast" ELSE "nil"]

NoReg == [module |-> NIL, err |-> "none", before |-> NoInstance, after |-> NoInstance]

\* mutant: the error of AppFlags.Parse is dropped and the build goes on
NewAppInstanceBegin_ParseErrorDropped ==
    /\ pc = "config"
    /\ IF config.AppFlags = "nil"
       THEN /\ pc' = "failed" /\ result' = "ErrAppError" /\ UNCHANGED this
       ELSE /\ pc' = "new" /\ result' = "none"
            /\ this' = NewInstance(config.Modules)
    /\ idx' = 1
    /\ UNCHANGED <<config, once, newCalls, closeCalls, closeRet, closeErrs, lastReg,
                   hookRet>>
    /\ UNCHANGED <<runVars, cfgVars, toolVars>>

\* lines 131-175
NewAppInstanceBegin ==
    /\ pc = "config"
    /\ IF config.AppFlags = "nil"
       THEN /\ pc' = "failed" /\ result' = "ErrAppError" /\ UNCHANGED this
       ELSE IF config.AppFlags = "badargs"
       THEN /\ pc' = "failed" /\ result' = "ParseError" /\ UNCHANGED this
       ELSE /\ pc' = "new" /\ result' = "none"
            /\ this' = NewInstance(config.Modules)
    /\ idx' = 1
    /\ UNCHANGED <<config, once, newCalls, closeCalls, closeRet, closeErrs, lastReg,
                   hookRet>>
    /\ UNCHANGED <<runVars, cfgVars, toolVars>>

\* what a module.New hook can return (line 190):
\*   ok        a driver and no error
\*   err       no driver and an error
\*   errDriver a driver together with an error
\*   nil       neither a driver nor an error
HookOutcomes == {"ok", "err", "errDriver", "nil"}

HookReturn(m, hook) ==
    [module |-> m,
     driver |-> IF hook \in {"ok", "errDriver"} THEN m ELSE NIL,
     err |-> IF hook \in {"err", "errDriver"} THEN "ErrNew" ELSE "nil"]

NoHookRet == [module |-> NIL, driver |-> NIL, err |-> "none"]

\* a New hook asserts the type of a nil Driver: its lookup found nothing
HookPanics(inst, m) ==
    \E k \in 1..Len(HookLookups(m)) : ModuleInstance(inst, HookLookups(m)[k]) = NIL

\* mutant: the return after a failed module.New is missing, the loop goes on
\* with the next module
NewAppInstanceModule_NoAbort ==
    /\ pc = "new"
    /\ idx <= Len(config.Modules)
    /\ LET m == config.Modules[idx]
           once1 == once \/ this.Logger # NIL
       IN
       IF ~ModuleTable[m].New
       THEN /\ idx' = idx + 1 /\ once' = once1
            /\ UNCHANGED <<this, pc, result, newCalls, closeCalls, lastReg, hookRet>>
       ELSE IF HookPanics(this, m)
       THEN /\ newCalls' = Append(newCalls, m)
            /\ hookRet' = [module |-> m, driver |-> NIL, err |-> "none"]
            /\ idx' = idx + 1 /\ once' = once1
            /\ pc' = "panic"
            /\ UNCHANGED <<this, result, closeCalls, lastReg>>
       ELSE \E hook \in HookOutcomes, castok \in BOOLEAN, closeok \in BOOLEAN :
            /\ newCalls' = Append(newCalls, m)
            /\ hookRet' = HookReturn(m, hook)
            /\ once' = once1
            /\ idx' = idx + 1
            /\ IF HookReturn(m, hook).err # "nil"
               THEN UNCHANGED <<pc, result, this, closeCalls, lastReg>>
               ELSE IF HookReturn(m, hook).driver = NIL
               THEN /\ pc' = "failed" /\ result' = "NewReturnNil"
                    /\ UNCHANGED <<this, closeCalls, lastReg>>
               ELSE LET r == setModuleInstance(this, m, m, castok) IN
                    /\ this' = r.inst
                    /\ lastReg' = [module |-> m, err |-> r.err, before |-> this,
                                   after |-> r.inst]
                    /\ IF r.err = "nil"
                       THEN /\ UNCHANGED <<pc, result, closeCalls>>
                       ELSE /\ closeCalls' = Append(closeCalls, m)
                            /\ IF ~closeok /\ r.inst.Logger = NIL
                               THEN pc' = "panic" /\ result' = "none"
                               ELSE pc' = "failed" /\ result' = r.err
    /\ UNCHANGED <<config, closeRet, closeErrs>>
    /\ UNCHANGED <<runVars, cfgVars, toolVars>>

\* lines 179-201: one iteration of the loop over config.Modules.
\* hook is what module.New returns, castok whether the driver implements the
\* interface of its type, closeok whether driver.Close succeeds.
NewAppInstanceModule ==
    /\ pc = "new"
    /\ idx <= Len(config.Modules)
    /\ LET m == config.Modules[idx]
           once1 == once \/ this.Logger # NIL
       IN
       IF ~ModuleTable[m].New
       THEN /\ idx' = idx + 1 /\ once' = once1
            /\ UNCHANGED <<this, pc, result, newCalls, closeCalls, lastReg, hookRet>>
       ELSE IF HookPanics(this, m)
       THEN /\ newCalls' = Append(newCalls, m)
            /\ hookRet' = [module |-> m, driver |-> NIL, err |-> "none"]
            /\ idx' = idx + 1 /\ once' = once1
            /\ pc' = "panic"
            /\ UNCHANGED <<this, result, closeCalls, lastReg>>
       ELSE \E hook \in HookOutcomes, castok \in BOOLEAN, closeok \in BOOLEAN :
            /\ newCalls' = Append(newCalls, m)
            /\ hookRet' = HookReturn(m, hook)
            /\ once' = once1
            /\ idx' = idx + 1
            /\ IF HookReturn(m, hook).err # "nil"
               THEN /\ pc' = "failed" /\ result' = "ErrNew"
                    /\ UNCHANGED <<this, closeCalls, lastReg>>
               ELSE IF HookReturn(m, hook).driver = NIL
               THEN /\ pc' = "failed" /\ result' = "NewReturnNil"
                    /\ UNCHANGED <<this, closeCalls, lastReg>>
               ELSE LET r == setModuleInstance(this, m, m, castok) IN
                    /\ this' = r.inst
                    /\ lastReg' = [module |-> m, err |-> r.err, before |-> this,
                                   after |-> r.inst]
                    /\ IF r.err = "nil"
                       THEN /\ UNCHANGED <<pc, result, closeCalls>>
                       ELSE /\ closeCalls' = Append(closeCalls, m)
                            \* line 196: this.Logger.Error on a nil Logger panics
                            /\ IF ~closeok /\ r.inst.Logger = NIL
                               THEN pc' = "panic" /\ result' = "none"
                               ELSE pc' = "failed" /\ result' = r.err
    /\ UNCHANGED <<config, closeRet, closeErrs>>
    /\ UNCHANGED <<runVars, cfgVars, toolVars>>

\* lines 203-209
NewAppInstanceEnd ==
    /\ pc = "new"
    /\ idx > Len(config.Modules)
    /\ IF ~once /\ this.Logger = NIL
       THEN /\ pc' = "panic" /\ UNCHANGED <<once, result>>
       ELSE /\ pc' = "built" /\ once' = TRUE /\ result' = "nil"
    /\ UNCHANGED <<config, this, idx, newCalls, closeCalls, closeRet, closeErrs, lastReg,
                   hookRet>>
    /\ UNCHANGED <<runVars, cfgVars, toolVars>>

(***************************************************************************)
(* AppInstance.Close                                                       *)
(***************************************************************************)
\* mutant: the drivers are closed in creation order
CloseVisits_Forward(byorder, fails) == byorder

\* mutant: the loop ends at the first driver whose Close fails
RECURSIVE CloseVisits_StopOnError(_, _)
CloseVisits_StopOnError(byorder, fails) ==
    IF byorder = <<>> THEN <<>>
    ELSE LET last == byorder[Len(byorder)] IN
         IF last \in fails THEN <<last>>
         ELSE <<last>> \o CloseVisits_StopOnError(SubSeq(byorder, 1, Len(byorder) - 1), fails)

\* lines 336-342: the drivers Close is invoked on, in order; fails are the
\* drivers whose Close returns an error
CloseVisits(byorder, fails) == Reverse(byorder)

\* line 363
CloseReturn(byorder, fails) == "nil"

\* mutant: the by-name map is not dropped
Close_KeepsByName ==
    /\ pc \in {"built", "closed", "failed"}
    /\ IF pc = "failed" \/ this.Logger = NIL
       THEN /\ pc' = "panic"
            /\ UNCHANGED <<this, closeCalls, closeRet, closeErrs>>
       ELSE \E fails \in SUBSET SeqRange(this.byorder) :
            /\ closeCalls' = closeCalls \o CloseVisits(this.byorder, fails)
            /\ closeRet' = CloseReturn(this.byorder, fails)
            /\ closeErrs' = SeqRange(CloseVisits(this.byorder, fails)) \cap fails
            /\ this' = [this EXCEPT !.bytype = EmptyMap,
                                    !.byorder = <<>>, !.Logger = NIL, !.Hardware = NIL,
                                    !.GPIO = NIL]
            /\ pc' = "closed"
    /\ UNCHANGED <<config, idx, once, result, newCalls, lastReg, hookRet>>
    /\ UNCHANGED <<runVars, cfgVars, toolVars>>

\* lines 331-364, called on what NewAppInstance returned: after a failed build
\* that is a nil *AppInstance (lines 191, 193, 198), and line 332 dereferences it
Close ==
    /\ pc \in {"built", "closed", "failed"}
    /\ IF pc = "failed" \/ this.Logger = NIL
       THEN \* line 332: this.Logger.Debug on a nil receiver or a nil Logger
            /\ pc' = "panic"
            /\ UNCHANGED <<this, closeCalls, closeRet, closeErrs>>
       ELSE \E fails \in SUBSET SeqRange(this.byorder) :
            /\ closeCalls' = closeCalls \o CloseVisits(this.byorder, fails)
            /\ closeRet' = CloseReturn(this.byorder, fails)
            /\ closeErrs' = SeqRange(CloseVisits(this.byorder, fails)) \cap fails
            /\ this' = [this EXCEPT !.byname = EmptyMap, !.bytype = EmptyMap,
                                    !.byorder = <<>>, !.Logger = NIL, !.Hardware = NIL,
                                    !.GPIO = NIL]
            /\ pc' = "closed"
    /\ UNCHANGED <<config, idx, once, result, newCalls, lastReg, hookRet>>
    /\ UNCHANGED <<runVars, cfgVars, toolVars>>

\* the configuration is handed over ready-made, NewAppConfig is not involved
CfgIdle == requires = <<>> /\ names = <<>> /\ cfgErr = "none"

RunIdle ==
    /\ runpc = "idle" /\ hookIdx = 1 /\ runCalls = <<>> /\ numBg = 0
    /\ mainKind = "done" /\ mainErr = "nil" /\ bgKind = <<>>
    /\ mainpc = "none" /\ bgpc = <<>> /\ coord = -1 /\ wg = 0
    /\ logged = {} /\ runResult = "none"

\* neither the mdns tool nor PixelsPerInch is involved
NoPPI == [ppi |-> 0, err |-> "none"]

ToolIdle ==
    /\ lock = "free" /\ gctx = "nil" /\ browseCtx = "none" /\ waitRet = "none"
    /\ w = 0 /\ h = 0 /\ value = <<>> /\ ppiRet = NoPPI

Init ==
    /\ config \in [Modules : ModuleLists(MaxModules), AppFlags : {"nil", "ok", "badargs"}]
    /\ this = NoInstance
    /\ pc = "config"
    /\ idx = 1
    /\ once = FALSE
    /\ result = "none"
    /\ newCalls = <<>>
    /\ closeCalls = <<>>
    /\ closeRet = "none"
    /\ closeErrs = {}
    /\ lastReg = NoReg
    /\ hookRet = NoHookRet
    /\ CfgIdle
    /\ RunIdle
    /\ ToolIdle

Next ==
    \/ NewAppInstanceBegin
    \/ NewAppInstanceModule
    \/ NewAppInstanceEnd
    \/ Close

Spec == Init /\ [][Next]_vars

(***************************************************************************)
(* NewAppConfig, AppendModulesByName and the dependency resolver           *)
(***************************************************************************)
\* the registered modules: the registry holds one module per name
RegIds == {1, 8, 9}

UnknownName == "nomod"

RegNames == {ModuleTable[m].Name : m \in RegIds} \cup {UnknownName}

\* lookup in the registry: the module registered under a name, or nil
ModuleByName(name) ==
    IF \E m \in RegIds : ModuleTable[m].Name = name
    THEN CHOOSE m \in RegIds : ModuleTable[m].Name = name
    ELSE NIL

\* the lists of names of length at most n
NameLists(n) == UNION {[1..k -> RegNames] : k \in 0..n}

\* the registries: every module requires at most MaxRequires distinct
\* registered names (an unregistered name enters through the requested names)
Registries ==
    [RegIds -> {q \in NameLists(MaxRequires) :
                   IsInjective(q) /\ UnknownName \notin SeqRange(q)}]

\* the resolver, depth first: a name already resolved is skipped, a name on
\* the recursion stack is a cycle, an unregistered name is an error; a module
\* is appended after the modules it requires
RECURSIVE ResolveName(_, _, _)
RECURSIVE ResolveAll(_, _, _)
ResolveName(name, visiting, resolved) ==
    LET m == ModuleByName(name) IN
    IF m = NIL THEN [modules |-> <<>>, err |-> "UnknownModule"]
    ELSE IF m \in SeqRange(resolved) THEN [modules |-> resolved, err |-> "nil"]
    ELSE IF m \in visiting THEN [modules |-> <<>>, err |-> "CyclicDependency"]
    ELSE LET r == ResolveAll(requires[m], visiting \cup {m}, resolved) IN
         IF r.err # "nil" THEN r
         ELSE [modules |-> Append(r.modules, m), err |-> "nil"]

ResolveAll(q, visiting, resolved) ==
    IF q = <<>> THEN [modules |-> resolved, err |-> "nil"]
    ELSE LET r == ResolveName(Head(q), visiting, resolved) IN
         IF r.err # "nil" THEN r
         ELSE ResolveAll(Tail(q), visiting, r.modules)

\* a module with the modules it depends on, or an error and no list
ModuleWithDependencies(name) == ResolveName(name, {}, <<>>)

\* lines 414-421
inModules(modules, other) == \E i \in 1..Len(modules) : modules[i] = other

\* mutant: a module is added although it is in the list already
RECURSIVE appendModules_NoDedup(_, _)
appendModules_NoDedup(modules, others) ==
    IF others = <<>> THEN modules
    ELSE appendModules_NoDedup(Append(modules, Head(others)), Tail(others))

\* mutant: a new module is put at the head of the list
RECURSIVE appendModules_Prepend(_, _)
appendModules_Prepend(modules, others) ==
    IF others = <<>> THEN modules
    ELSE appendModules_Prepend(
             IF inModules(modules, Head(others)) THEN modules
             ELSE <<Head(others)>> \o modules,
             Tail(others))

\* lines 400-411
RECURSIVE appendModules(_, _)
appendModules(modules, others) ==
    IF others = <<>> THEN modules
    ELSE appendModules(
             IF inModules(modules, Head(others)) THEN modules
             ELSE Append(modules, Head(others)),
             Tail(others))

\* lines 381-393: the list and nil, or no list and the error
RECURSIVE AppendModulesByName(_, _)
AppendModulesByName(modules, ns) ==
    IF ns = <<>> THEN [modules |-> modules, err |-> "nil"]
    ELSE LET r == ModuleWithDependencies(Head(ns)) IN
         IF r.err # "nil" THEN [modules |-> <<>>, err |-> r.err]
         ELSE AppendModulesByName(appendModules(modules, r.modules), Tail(ns))

\* AppConfig{}
EmptyConfig == [Modules |-> <<>>, AppFlags |-> "nil"]

\* mutant: the logger and its dependencies are added after the requested
\* modules
NewAppConfig_LoggerLast(ns) ==
    LET r0 == ModuleWithDependencies("logger") IN
    IF r0.err # "nil" THEN [config |-> EmptyConfig, err |-> r0.err]
    ELSE LET r1 == AppendModulesByName(<<>>, ns) IN
         IF r1.err # "nil" THEN [config |-> EmptyConfig, err |-> r1.err]
         ELSE [config |-> [Modules |-> appendModules(r1.modules, r0.modules),
                           AppFlags |-> "ok"],
               err |-> "nil"]

\* mutant: on a resolution error the configuration keeps the modules resolved
\* so far
NewAppConfig_PartialOnError(ns) ==
    LET r0 == ModuleWithDependencies("logger") IN
    IF r0.err # "nil" THEN [config |-> EmptyConfig, err |-> r0.err]
    ELSE LET r1 == AppendModulesByName(r0.modules, ns) IN
         IF r1.err # "nil"
         THEN [config |-> [Modules |-> r0.modules, AppFlags |-> "ok"], err |-> r1.err]
         ELSE [config |-> [Modules |-> r1.modules, AppFlags |-> "ok"], err |-> "nil"]

\* lines 90-127: the configuration, and the error that was printed
NewAppConfig(ns) ==
    LET r0 == ModuleWithDependencies("logger") IN
    IF r0.err # "nil" THEN [config |-> EmptyConfig, err |-> r0.err]
    ELSE LET r1 == AppendModulesByName(r0.modules, ns) IN
         IF r1.err # "nil" THEN [config |-> EmptyConfig, err |-> r1.err]
         ELSE [config |-> [Modules |-> r1.modules, AppFlags |-> "ok"], err |-> "nil"]

\* the program calls NewAppConfig with its module names
NewAppConfigCall ==
    /\ pc = "start"
    /\ config' = NewAppConfig(names).config
    /\ cfgErr' = NewAppConfig(names).err
    /\ pc' = "config"
    /\ UNCHANGED <<this, idx, once, result, newCalls, closeCalls, closeRet, closeErrs,
                   lastReg, hookRet, requires, names>>
    /\ UNCHANGED <<runVars, toolVars>>

BuildIdle ==
    /\ this = NoInstance /\ idx = 1 /\ once = FALSE /\ result = "none"
    /\ newCalls = <<>> /\ closeCalls = <<>> /\ closeRet = "none" /\ closeErrs = {}
    /\ lastReg = NoReg /\ hookRet = NoHookRet

InitConfig ==
    /\ requires \in Registries
    /\ names \in NameLists(MaxNames)
    /\ cfgErr = "none"
    /\ config = EmptyConfig
    /\ pc = "start"
    /\ BuildIdle
    /\ RunIdle
    /\ ToolIdle

NextConfig ==
    \/ NewAppConfigCall
    \/ NewAppInstanceBegin
    \/ NewAppInstanceModule
    \/ NewAppInstanceEnd
    \/ Close

SpecConfig == InitConfig /\ [][NextConfig]_vars

(***************************************************************************)
(* AppInstance.Run                                                         *)
(***************************************************************************)
\* what a background task does with its done channel:
\*   wait     receives from it, then returns nil        (EventLoop)
\*   waitErr  receives from it, then returns an error
\*   errEarly returns an error without receiving        (BrowseLoop, lines 95-105)
\*   never    neither receives nor returns
BgKinds == {"wait", "waitErr", "errEarly", "never"}

\* what the main task does with its done channel:
\*   done     writes DONE once, then returns            (MainLoop, lines 126-127)
\*   nodone   returns without writing
MainKinds == {"done", "nodone"}

BgIds == 1..numBg

\* the instance NewAppInstance builds from mods when the first n hooks succeed
RECURSIVE BuildAll(_, _)
BuildAll(mods, n) ==
    IF n = 0 THEN [inst |-> NewInstance(mods), err |-> "nil", reg |-> NoReg]
    ELSE LET p == BuildAll(mods, n - 1)
             m == mods[n]
         IN IF p.err # "nil" \/ ~ModuleTable[m].New THEN p
            ELSE LET r == setModuleInstance(p.inst, m, m, TRUE)
                 IN [inst |-> r.inst, err |-> r.err,
                     reg |-> [module |-> m, err |-> r.err, before |-> p.inst,
                              after |-> r.inst]]

\* the modules Run is exercised with: with and without a driver, with and
\* without a run hook
RunModuleIds == {1, 2, 5, 7}

\* NewAppConfig puts the logger first (line 96)
RunConfigs ==
    {c \in ModuleLists(MaxRunModules) :
        /\ SeqRange(c) \subseteq RunModuleIds
        /\ Len(c) >= 1
        /\ c[1] = LoggerModule
        /\ BuildAll(c, Len(c)).err = "nil"}

\* mutant: the return after a failed module.Run is missing
RunHook_NoAbort ==
    /\ runpc = "hooks"
    /\ hookIdx <= Len(this.modules)
    /\ LET m == this.modules[hookIdx] IN
       IF ~ModuleTable[m].Run
       THEN /\ hookIdx' = hookIdx + 1
            /\ UNCHANGED <<runpc, runCalls, runResult>>
       ELSE \E err \in {"nil", "ErrRun"} :
            /\ runCalls' = Append(runCalls, <<m, MapGet(this.byname, ModuleTable[m].Name)>>)
            /\ hookIdx' = hookIdx + 1
            /\ IF err = "nil"
               THEN UNCHANGED <<runpc, runResult>>
               ELSE UNCHANGED runpc /\ runResult' = err
    /\ UNCHANGED <<numBg, mainKind, mainErr, bgKind, mainpc, bgpc, coord, wg, logged>>
    /\ UNCHANGED <<buildVars, cfgVars, toolVars>>

\* mutant: a module without a driver is skipped
RunHook_SkipNilDriver ==
    /\ runpc = "hooks"
    /\ hookIdx <= Len(this.modules)
    /\ LET m == this.modules[hookIdx] IN
       IF ~ModuleTable[m].Run \/ MapGet(this.byname, ModuleTable[m].Name) = NIL
       THEN /\ hookIdx' = hookIdx + 1
            /\ UNCHANGED <<runpc, runCalls, runResult>>
       ELSE \E err \in {"nil", "ErrRun"} :
            /\ runCalls' = Append(runCalls, <<m, MapGet(this.byname, ModuleTable[m].Name)>>)
            /\ hookIdx' = hookIdx + 1
            /\ IF err = "nil"
               THEN UNCHANGED <<runpc, runResult>>
               ELSE runpc' = "returned" /\ runResult' = err
    /\ UNCHANGED <<numBg, mainKind, mainErr, bgKind, mainpc, bgpc, coord, wg, logged>>
    /\ UNCHANGED <<buildVars, cfgVars, toolVars>>

\* lines 222-230: one iteration of the loop over this.modules
RunHook ==
    /\ runpc = "hooks"
    /\ hookIdx <= Len(this.modules)
    /\ LET m == this.modules[hookIdx] IN
       IF ~ModuleTable[m].Run
       THEN /\ hookIdx' = hookIdx + 1
            /\ UNCHANGED <<runpc, runCalls, runResult>>
       ELSE \E err \in {"nil", "ErrRun"} :
            /\ runCalls' = Append(runCalls, <<m, MapGet(this.byname, ModuleTable[m].Name)>>)
            /\ hookIdx' = hookIdx + 1
            /\ IF err = "nil"
               THEN UNCHANGED <<runpc, runResult>>
               ELSE runpc' = "returned" /\ runResult' = err
    /\ UNCHANGED <<numBg, mainKind, mainErr, bgKind, mainpc, bgpc, coord, wg, logged>>
    /\ UNCHANGED <<buildVars, cfgVars, toolVars>>

\* mutant: the coordinator does not wait for the main task's DONE
RunStartTasks_NoWaitForMain ==
    /\ runpc = "hooks"
    /\ hookIdx > Len(this.modules)
    /\ wg' = numBg
    /\ bgpc' = [i \in BgIds |-> "running"]
    /\ coord' = 1
    /\ mainpc' = "running"
    /\ runpc' = "main"
    /\ UNCHANGED <<hookIdx, runCalls, numBg, mainKind, mainErr, bgKind, logged, runResult>>
    /\ UNCHANGED <<buildVars, cfgVars, toolVars>>

\* mutant: the coordinator is started only when there are background tasks
RunStartTasks_NoCoordinatorAlone ==
    /\ runpc = "hooks"
    /\ hookIdx > Len(this.modules)
    /\ wg' = numBg
    /\ bgpc' = [i \in BgIds |-> "running"]
    /\ coord' = IF numBg > 0 THEN 0 ELSE -1
    /\ mainpc' = "running"
    /\ runpc' = "main"
    /\ UNCHANGED <<hookIdx, runCalls, numBg, mainKind, mainErr, bgKind, logged, runResult>>
    /\ UNCHANGED <<buildVars, cfgVars, toolVars>>

\* lines 232-270: the channels are made, every background goroutine and the
\* coordinator goroutine are started, and main_task is called
RunStartTasks ==
    /\ runpc = "hooks"
    /\ hookIdx > Len(this.modules)
    /\ wg' = numBg
    /\ bgpc' = [i \in BgIds |-> "running"]
    /\ coord' = 0
    /\ mainpc' = "running"
    /\ runpc' = "main"
    /\ UNCHANGED <<hookIdx, runCalls, numBg, mainKind, mainErr, bgKind, logged, runResult>>
    /\ UNCHANGED <<buildVars, cfgVars, toolVars>>

\* the main task's done <- DONE meets the coordinator's <-channels[0] (line 258);
\* the coordinator goes on to its first send (line 265), or ends when there is
\* no background task.  MainLoop writes DONE once its wait has ended.
MainWriteDone ==
    /\ \/ mainpc = "running" /\ mainKind = "done"
       \/ mainpc = "woke"
    /\ coord = 0
    /\ mainpc' = "wrote"
    /\ coord' = 1
    /\ UNCHANGED <<runpc, hookIdx, runCalls, numBg, mainKind, mainErr, bgKind, bgpc, wg,
                   logged, runResult>>
    /\ UNCHANGED <<buildVars, cfgVars, toolVars>>

\* line 270: main_task returns; Run goes on to wg.Wait()
MainReturn ==
    /\ \/ mainpc = "running" /\ mainKind = "nodone"
       \/ mainpc = "wrote"
    /\ mainpc' = "returned"
    /\ runpc' = "wait"
    /\ UNCHANGED <<hookIdx, runCalls, numBg, mainKind, mainErr, bgKind, bgpc, coord, wg,
                   logged, runResult>>
    /\ UNCHANGED <<buildVars, cfgVars, toolVars>>

\* a background task reaches its receive from done and blocks there
BgWait(i) ==
    /\ i \in BgIds
    /\ bgpc[i] = "running"
    /\ bgKind[i] \in {"wait", "waitErr"}
    /\ bgpc' = [bgpc EXCEPT ![i] = "waiting"]
    /\ UNCHANGED <<runpc, hookIdx, runCalls, numBg, mainKind, mainErr, bgKind, mainpc,
                   coord, wg, logged, runResult>>
    /\ UNCHANGED <<buildVars, cfgVars, toolVars>>

\* lines 246-251: a background task returns an error without having received;
\* the error is logged and wg.Done() runs
BgReturnEarly(i) ==
    /\ i \in BgIds
    /\ bgpc[i] = "running"
    /\ bgKind[i] = "errEarly"
    /\ bgpc' = [bgpc EXCEPT ![i] = "returned"]
    /\ logged' = logged \cup {i}
    /\ wg' = wg - 1
    /\ UNCHANGED <<runpc, hookIdx, runCalls, numBg, mainKind, mainErr, bgKind, mainpc,
                   coord, runResult>>
    /\ UNCHANGED <<buildVars, cfgVars, toolVars>>

\* mutant: the coordinator's loop index does not advance, every send is on the
\* same channel
Deliver_SameChannel(i) ==
    /\ i \in BgIds
    /\ coord = i
    /\ bgpc[i] = "waiting"
    /\ bgpc' = [bgpc EXCEPT ![i] = "got"]
    /\ coord' = i
    /\ UNCHANGED <<runpc, hookIdx, runCalls, numBg, mainKind, mainErr, bgKind, mainpc, wg,
                   logged, runResult>>
    /\ UNCHANGED <<buildVars, cfgVars, toolVars>>

\* mutant: the coordinator's loop index advances by two, every other task is
\* passed over
Deliver_SkipsTask(i) ==
    /\ i \in BgIds
    /\ coord = i
    /\ bgpc[i] = "waiting"
    /\ bgpc' = [bgpc EXCEPT ![i] = "got"]
    /\ coord' = IF i < numBg THEN i + 2 ELSE i + 1
    /\ UNCHANGED <<runpc, hookIdx, runCalls, numBg, mainKind, mainErr, bgKind, mainpc, wg,
                   logged, runResult>>
    /\ UNCHANGED <<buildVars, cfgVars, toolVars>>

\* line 265: channels[i] <- DONE meets the receive of background task i; the
\* coordinator goes on to the next task
Deliver(i) ==
    /\ i \in BgIds
    /\ coord = i
    /\ bgpc[i] = "waiting"
    /\ bgpc' = [bgpc EXCEPT ![i] = "got"]
    /\ coord' = i + 1
    /\ UNCHANGED <<runpc, hookIdx, runCalls, numBg, mainKind, mainErr, bgKind, mainpc, wg,
                   logged, runResult>>
    /\ UNCHANGED <<buildVars, cfgVars, toolVars>>

\* lines 246-251: a background task returns after its token
BgReturn(i) ==
    /\ i \in BgIds
    /\ bgpc[i] = "got"
    /\ bgpc' = [bgpc EXCEPT ![i] = "returned"]
    /\ logged' = IF bgKind[i] = "waitErr" THEN logged \cup {i} ELSE logged
    /\ wg' = wg - 1
    /\ UNCHANGED <<runpc, hookIdx, runCalls, numBg, mainKind, mainErr, bgKind, mainpc,
                   coord, runResult>>
    /\ UNCHANGED <<buildVars, cfgVars, toolVars>>

\* mutant: a background task's error becomes the result when main returned nil
RunReturnValue_BgErr(err, bgErrs) == IF err = "nil" /\ bgErrs # {} THEN "ErrBg" ELSE err

\* line 283: the value Run returns; bgErrs are the background tasks that failed
RunReturnValue(err, bgErrs) == err

\* mutant: Run does not wait for the background tasks
RunReturn_NoWait ==
    /\ runpc = "wait"
    /\ runpc' = "returned"
    /\ runResult' = RunReturnValue(mainErr, logged)
    /\ UNCHANGED <<hookIdx, runCalls, numBg, mainKind, mainErr, bgKind, mainpc, bgpc,
                   coord, wg, logged>>
    /\ UNCHANGED <<buildVars, cfgVars, toolVars>>

\* mutant: Run drops the instance's tables before it returns
RunReturn_ClearsTables ==
    /\ runpc = "wait"
    /\ wg = 0
    /\ runpc' = "returned"
    /\ runResult' = RunReturnValue(mainErr, logged)
    /\ this' = [this EXCEPT !.byname = EmptyMap, !.bytype = EmptyMap, !.byorder = <<>>]
    /\ UNCHANGED <<hookIdx, runCalls, numBg, mainKind, mainErr, bgKind, mainpc, bgpc,
                   coord, wg, logged>>
    /\ UNCHANGED <<config, pc, idx, once, result, newCalls, closeCalls, closeRet,
                   closeErrs, lastReg, hookRet>>
    /\ UNCHANGED <<cfgVars, toolVars>>

\* lines 278-283: wg.Wait() returns and Run returns err
RunReturn ==
    /\ runpc = "wait"
    /\ wg = 0
    /\ runpc' = "returned"
    /\ runResult' = RunReturnValue(mainErr, logged)
    /\ UNCHANGED <<hookIdx, runCalls, numBg, mainKind, mainErr, bgKind, mainpc, bgpc,
                   coord, wg, logged>>
    /\ UNCHANGED <<buildVars, cfgVars, toolVars>>

InitRun ==
    /\ \E c \in RunConfigs :
         LET b == BuildAll(c, Len(c)) IN
         /\ config = [Modules |-> c, AppFlags |-> "ok"]
         /\ this = b.inst
         /\ idx = Len(c) + 1
         /\ newCalls = SelectSeq(c, LAMBDA m : ModuleTable[m].New)
         /\ lastReg = b.reg
         /\ hookRet = IF b.reg.module = NIL THEN NoHookRet
                      ELSE HookReturn(b.reg.module, "ok")
    /\ CfgIdle
    /\ pc = "built"
    /\ once = TRUE
    /\ result = "nil"
    /\ closeCalls = <<>>
    /\ closeRet = "none"
    /\ closeErrs = {}
    /\ runpc = "hooks"
    /\ hookIdx = 1
    /\ runCalls = <<>>
    /\ numBg \in 0..MaxBg
    /\ mainKind \in MainKinds
    /\ mainErr \in {"nil", "ErrMain"}
    /\ bgKind \in [1..numBg -> BgKinds]
    /\ mainpc = "none"
    /\ bgpc = [i \in 1..numBg |-> "none"]
    /\ coord = -1
    /\ wg = 0
    /\ logged = {}
    /\ runResult = "none"
    /\ ToolIdle

MainStep == MainWriteDone \/ MainReturn

BgStep(i) == BgWait(i) \/ BgReturnEarly(i) \/ Deliver(i) \/ BgReturn(i)

CoordStep == MainWriteDone \/ \E i \in 1..MaxBg : Deliver(i)

RunThreadStep == RunHook \/ RunStartTasks \/ RunReturn

NextRun ==
    \/ RunHook
    \/ RunStartTasks
    \/ MainWriteDone
    \/ MainReturn
    \/ \E i \in 1..MaxBg : BgWait(i)
    \/ \E i \in 1..MaxBg : BgReturnEarly(i)
    \/ \E i \in 1..MaxBg : Deliver(i)
    \/ \E i \in 1..MaxBg : BgReturn(i)
    \/ RunReturn

SpecRun == InitRun /\ [][NextRun]_vars

\* every goroutine that can take a step eventually takes one
FairSpecRun ==
    /\ SpecRun
    /\ WF_vars(RunThreadStep)
    /\ WF_vars(MainStep)
    /\ WF_vars(CoordStep)
    /\ \A i \in 1..MaxBg : WF_vars(BgStep(i))

(***************************************************************************)
(* The end-to-end scenario: modules logger, bus (requires logger) and      *)
(* sensor (requires bus); NewAppConfig("sensor"), NewAppInstance, Run with *)
(* one background task that waits for its signal, then Close.              *)
(***************************************************************************)
E2ERegistry == (1 :> <<>>) @@ (8 :> <<"logger">>) @@ (9 :> <<"bus">>)

\* the program calls Run on the instance NewAppInstance returned
RunCall ==
    /\ pc = "built"
    /\ runpc = "idle"
    /\ runpc' = "hooks"
    /\ UNCHANGED <<hookIdx, runCalls, numBg, mainKind, mainErr, bgKind, mainpc, bgpc,
                   coord, wg, logged, runResult>>
    /\ UNCHANGED <<buildVars, cfgVars, toolVars>>

\* the program calls Close once Run has returned
CloseAfterRun == runpc = "returned" /\ Close

InitE2E ==
    /\ requires = E2ERegistry
    /\ names = <<"sensor">>
    /\ cfgErr = "none"
    /\ config = EmptyConfig
    /\ pc = "start"
    /\ BuildIdle
    /\ runpc = "idle"
    /\ hookIdx = 1
    /\ runCalls = <<>>
    /\ numBg = 1
    /\ mainKind \in MainKinds
    /\ mainErr \in {"nil", "ErrMain"}
    /\ bgKind = <<"wait">>
    /\ mainpc = "none"
    /\ bgpc = <<"none">>
    /\ coord = -1
    /\ wg = 0
    /\ logged = {}
    /\ runResult = "none"
    /\ ToolIdle

NextE2E ==
    \/ NewAppConfigCall
    \/ NewAppInstanceBegin
    \/ NewAppInstanceModule
    \/ NewAppInstanceEnd
    \/ RunCall
    \/ RunHook
    \/ RunStartTasks
    \/ MainWriteDone
    \/ MainReturn
    \/ \E i \in 1..MaxBg : BgWait(i)
    \/ \E i \in 1..MaxBg : Deliver(i)
    \/ \E i \in 1..MaxBg : BgReturn(i)
    \/ RunReturn
    \/ CloseAfterRun

SpecE2E == InitE2E /\ [][NextE2E]_vars

FairSpecE2E ==
    /\ SpecE2E
    /\ WF_vars(RunThreadStep)
    /\ WF_vars(MainStep)
    /\ WF_vars(CoordStep)
    /\ \A i \in 1..MaxBg : WF_vars(BgStep(i))

(***************************************************************************)
(* The mdns tool: main calls InitContext and then runs MainLoop as the     *)
(* main task with BrowseLoop and EventLoop as background tasks 1 and 2.    *)
(***************************************************************************)
\* what BrowseLoop meets:
\*   browse          Browse succeeds, the task then receives from done
\*   browseNoService the service flag or the discovery driver is missing, the
\*                   task returns an error before GetContext (lines 95-102)
\*   browseErr       Browse returns an error (line 104)
BrowseKinds == {"browse", "browseNoService", "browseErr"}

\* the modules of the tool: the logger and the discovery service
MdnsModules == <<1, 5>>

\* lines 36-38, called by main before the tasks exist (line 141)
InitContext ==
    /\ runpc = "idle"
    /\ lock = "free"
    /\ lock' = "InitContext"
    /\ UNCHANGED <<gctx, browseCtx, waitRet, w, h, value, ppiRet>>
    /\ UNCHANGED <<buildVars, cfgVars, runVars>>

\* line 144: CommandLineTool runs the tasks
MdnsRunCall ==
    /\ lock = "InitContext"
    /\ RunCall

\* line 41, called by MainLoop (line 117)
SetContextStore ==
    /\ mainpc = "running"
    /\ mainKind = "loop"
    /\ gctx' = "ctx"
    /\ mainpc' = "stored"
    /\ UNCHANGED <<lock, browseCtx, waitRet, w, h, value, ppiRet>>
    /\ UNCHANGED <<runpc, hookIdx, runCalls, numBg, mainKind, mainErr, bgKind, bgpc,
                   coord, wg, logged, runResult>>
    /\ UNCHANGED <<buildVars, cfgVars>>

\* line 42: the deferred lock.Unlock() runs when SetContext returns
SetContextUnlock ==
    /\ mainpc = "stored"
    /\ lock' = "free"
    /\ mainpc' = "set"
    /\ UNCHANGED <<gctx, browseCtx, waitRet, w, h, value, ppiRet>>
    /\ UNCHANGED <<runpc, hookIdx, runCalls, numBg, mainKind, mainErr, bgKind, bgpc,
                   coord, wg, logged, runResult>>
    /\ UNCHANGED <<buildVars, cfgVars>>

\* part_001 lines 309-317, called by MainLoop (line 120): the select ends with
\* a caught signal or with the timeout; MainLoop drops the returned flag
WaitForSignalOrTimeout ==
    /\ mainpc = "set"
    /\ \E cause \in {"signal", "timeout"} : waitRet' = cause
    /\ mainpc' = "woke"
    /\ UNCHANGED <<lock, gctx, browseCtx, w, h, value, ppiRet>>
    /\ UNCHANGED <<runpc, hookIdx, runCalls, numBg, mainKind, mainErr, bgKind, bgpc,
                   coord, wg, logged, runResult>>
    /\ UNCHANGED <<buildVars, cfgVars>>

\* lines 95-102: BrowseLoop returns an error before it asks for the context;
\* the error is logged and wg.Done() runs
BrowseReturnEarly(i) ==
    /\ i \in BgIds
    /\ bgpc[i] = "running"
    /\ bgKind[i] = "browseNoService"
    /\ bgpc' = [bgpc EXCEPT ![i] = "returned"]
    /\ logged' = logged \cup {i}
    /\ wg' = wg - 1
    /\ UNCHANGED <<runpc, hookIdx, runCalls, numBg, mainKind, mainErr, bgKind, mainpc,
                   coord, runResult>>
    /\ UNCHANGED <<buildVars, cfgVars, toolVars>>

\* mutant: GetContext does not take the lock
GetContextLock_NoWait(i) ==
    /\ i \in BgIds
    /\ bgpc[i] = "running"
    /\ bgKind[i] \in {"browse", "browseErr"}
    /\ lock' = lock
    /\ bgpc' = [bgpc EXCEPT ![i] = "locked"]
    /\ UNCHANGED <<gctx, browseCtx, waitRet, w, h, value, ppiRet>>
    /\ UNCHANGED <<runpc, hookIdx, runCalls, numBg, mainKind, mainErr, bgKind, mainpc,
                   coord, wg, logged, runResult>>
    /\ UNCHANGED <<buildVars, cfgVars>>

\* line 46, called by BrowseLoop (line 103): lock.Lock() waits for the mutex
GetContextLock(i) ==
    /\ i \in BgIds
    /\ bgpc[i] = "running"
    /\ bgKind[i] \in {"browse", "browseErr"}
    /\ lock = "free"
    /\ lock' = "GetContext"
    /\ bgpc' = [bgpc EXCEPT ![i] = "locked"]
    /\ UNCHANGED <<gctx, browseCtx, waitRet, w, h, value, ppiRet>>
    /\ UNCHANGED <<runpc, hookIdx, runCalls, numBg, mainKind, mainErr, bgKind, mainpc,
                   coord, wg, logged, runResult>>
    /\ UNCHANGED <<buildVars, cfgVars>>

\* lines 47-48: GetContext returns gctx and unlocks; its result is the
\* argument of discovery.Browse (line 103)
GetContextReturn(i) ==
    /\ i \in BgIds
    /\ bgpc[i] = "locked"
    /\ browseCtx' = gctx
    /\ lock' = "free"
    /\ bgpc' = [bgpc EXCEPT ![i] = "browsing"]
    /\ UNCHANGED <<gctx, waitRet, w, h, value, ppiRet>>
    /\ UNCHANGED <<runpc, hookIdx, runCalls, numBg, mainKind, mainErr, bgKind, mainpc,
                   coord, wg, logged, runResult>>
    /\ UNCHANGED <<buildVars, cfgVars>>

\* lines 103-109: Browse returns; on an error BrowseLoop returns it, it is
\* logged and wg.Done() runs; otherwise BrowseLoop goes on to its receive
Browse(i) ==
    /\ i \in BgIds
    /\ bgpc[i] = "browsing"
    /\ IF bgKind[i] = "browseErr"
       THEN /\ bgpc' = [bgpc EXCEPT ![i] = "returned"]
            /\ logged' = logged \cup {i}
            /\ wg' = wg - 1
       ELSE /\ bgpc' = [bgpc EXCEPT ![i] = "waiting"]
            /\ UNCHANGED <<logged, wg>>
    /\ UNCHANGED <<runpc, hookIdx, runCalls, numBg, mainKind, mainErr, bgKind, mainpc,
                   coord, runResult>>
    /\ UNCHANGED <<buildVars, cfgVars, toolVars>>

InitMdns ==
    /\ LET b == BuildAll(MdnsModules, Len(MdnsModules)) IN
         /\ config = [Modules |-> MdnsModules, AppFlags |-> "ok"]
         /\ this = b.inst
         /\ idx = Len(MdnsModules) + 1
         /\ newCalls = MdnsModules
         /\ lastReg = b.reg
         /\ hookRet = HookReturn(b.reg.module, "ok")
    /\ CfgIdle
    /\ pc = "built"
    /\ once = TRUE
    /\ result = "nil"
    /\ closeCalls = <<>>
    /\ closeRet = "none"
    /\ closeErrs = {}
    /\ runpc = "idle"
    /\ hookIdx = 1
    /\ runCalls = <<>>
    /\ numBg = 2
    /\ mainKind = "loop"
    /\ mainErr = "nil"
    /\ \E k \in BrowseKinds : bgKind = <<k, "wait">>
    /\ mainpc = "none"
    /\ bgpc = <<"none", "none">>
    /\ coord = -1
    /\ wg = 0
    /\ logged = {}
    /\ runResult = "none"
    /\ ToolIdle

MainLoopStep == SetContextStore \/ SetContextUnlock \/ WaitForSignalOrTimeout \/ MainStep

BrowseLoopStep(i) ==
    BrowseReturnEarly(i) \/ GetContextLock(i) \/ GetContextReturn(i) \/ Browse(i)

NextMdns ==
    \/ InitContext
    \/ MdnsRunCall
    \/ RunHook
    \/ RunStartTasks
    \/ SetContextStore
    \/ SetContextUnlock
    \/ WaitForSignalOrTimeout
    \/ MainWriteDone
    \/ MainReturn
    \/ \E i \in 1..MaxBg : BrowseReturnEarly(i)
    \/ \E i \in 1..MaxBg : GetContextLock(i)
    \/ \E i \in 1..MaxBg : GetContextReturn(i)
    \/ \E i \in 1..MaxBg : Browse(i)
    \/ \E i \in 1..MaxBg : BgWait(i)
    \/ \E i \in 1..MaxBg : Deliver(i)
    \/ \E i \in 1..MaxBg : BgReturn(i)
    \/ RunReturn

SpecMdns == InitMdns /\ [][NextMdns]_vars

\* every goroutine that can take a step eventually takes one, and the timeout
\* of WaitForSignalOrTimeout expires if no signal comes first
FairSpecMdns ==
    /\ SpecMdns
    /\ WF_vars(InitContext \/ MdnsRunCall \/ RunThreadStep)
    /\ WF_vars(MainLoopStep)
    /\ WF_vars(CoordStep)
    /\ \A i \in 1..MaxBg : WF_vars(BgStep(i) \/ BrowseLoopStep(i))

(***************************************************************************)
(* util.PixelsPerInch (ppi.go).  A string is a sequence of characters.     *)
(***************************************************************************)
\* the characters of the value strings: three decimal digits, the two letters
\* of the unit "in" and the blank
PPIChars == {"0", "2", "7", "i", "n", " "}

\* the value of a character as a digit, as strconv reads it: '0'-'9' are 0-9
\* and 'a'-'z' are 10-35; -1 for a character that is no digit
DigitValue(c) ==
    IF c = "0" THEN 0 ELSE IF c = "2" THEN 2 ELSE IF c = "7" THEN 7
    ELSE IF c = "i" THEN 18 ELSE IF c = "n" THEN 23 ELSE -1

IsDecimalDigit(c) == DigitValue(c) \in 0..9

ValueStrings(n) == UNION {[1..k -> PPIChars] : k \in 0..n}

\* strings.TrimSpace (line 86)
RECURSIVE TrimLeft(_)
TrimLeft(s) == IF s # <<>> /\ Head(s) = " " THEN TrimLeft(Tail(s)) ELSE s

RECURSIVE TrimRight(_)
TrimRight(s) ==
    IF s # <<>> /\ s[Len(s)] = " " THEN TrimRight(SubSeq(s, 1, Len(s) - 1)) ELSE s

TrimSpace(s) == TrimRight(TrimLeft(s))

\* 2^bitSize
RECURSIVE Pow2(_)
Pow2(n) == IF n = 0 THEN 1 ELSE 2 * Pow2(n - 1)

\* strconv.ParseUint(s, base, bitSize): every character must be a digit below
\* the base (else a syntax error), the number must be below 2^bitSize (else a
\* range error)
RECURSIVE ParseUintFrom(_, _, _, _)
ParseUintFrom(s, base, bitSize, acc) ==
    IF s = <<>> THEN [n |-> acc, err |-> "nil"]
    ELSE LET d == DigitValue(Head(s)) IN
         IF d < 0 \/ d >= base THEN [n |-> 0, err |-> "ErrSyntax"]
         ELSE IF acc * base + d >= Pow2(bitSize)
         THEN [n |-> Pow2(bitSize) - 1, err |-> "ErrRange"]
         ELSE ParseUintFrom(Tail(s), base, bitSize, acc * base + d)

ParseUint(s, base, bitSize) ==
    IF s = <<>> THEN [n |-> 0, err |-> "ErrSyntax"]
    ELSE ParseUintFrom(s, base, bitSize, 0)

\* the number a string of decimal digits denotes
RECURSIVE DecimalValue(_)
DecimalValue(s) ==
    IF s = <<>> THEN 0
    ELSE 10 * DecimalValue(SubSeq(s, 1, Len(s) - 1)) + DigitValue(s[Len(s)])

\* lines 51, 61-73, 137-147: REGEXP_PPI_D on a string of PPIChars: decimal
\* digits, blanks, the unit "in" (multiplier 1.0).  The units mm and cm, the
\* point and the "x" of REGEXP_PPI_WH take characters no value string here
\* holds.  The result is the length in inches.
ParseLengthString(s) ==
    LET n == Len(s)
        ks == {k \in 1..(n - 2) :
                  /\ \A j \in 1..k : IsDecimalDigit(s[j])
                  /\ \A j \in (k + 1)..(n - 2) : s[j] = " "}
    IN IF n >= 3 /\ s[n - 1] = "i" /\ s[n] = "n" /\ ks # {}
       THEN [inches |-> DecimalValue(SubSeq(s, 1, CHOOSE k \in ks : \A l \in ks : l <= k)),
             err |-> "nil"]
       ELSE [inches |-> 0, err |-> "ErrParseError"]

\* line 100-101: uint(sqrt(w^2 + h^2) / length) for a length above zero
DiagonalPPI(pw, ph, length) ==
    CHOOSE k \in 0..(pw + ph) :
        /\ (k * length) * (k * length) <= pw * pw + ph * ph
        /\ (k + 1) * length > pw + ph
            \/ ((k + 1) * length) * ((k + 1) * length) > pw * pw + ph * ph

\* the largest value of the model's integers
MaxInt == 2147483647

\* line 101 for a length of zero: the quotient is +Inf, and what uint(+Inf)
\* yields depends on the platform
InfToUint == {0, MaxInt}

\* lines 85-104: the results PixelsPerInch can return
PixelsPerInch(pw, ph, val) ==
    LET v == TrimSpace(val)
        u == ParseUint(v, 32, 10)
        l == ParseLengthString(v)
    IN IF v = <<>> THEN {[ppi |-> 0, err |-> "nil"]}
       ELSE IF u.err = "nil" THEN {[ppi |-> u.n, err |-> "nil"]}
       ELSE IF l.err = "nil"
       THEN IF pw = 0 \/ ph = 0 THEN {[ppi |-> 0, err |-> "ErrParseError"]}
            ELSE IF l.inches = 0 THEN {[ppi |-> x, err |-> "nil"] : x \in InfToUint}
            ELSE {[ppi |-> DiagonalPPI(pw, ph, l.inches), err |-> "nil"]}
       ELSE {[ppi |-> 0, err |-> l.err]}

\* a call of PixelsPerInch
PixelsPerInchCall ==
    /\ ppiRet.err = "none"
    /\ ppiRet' \in PixelsPerInch(w, h, value)
    /\ UNCHANGED <<lock, gctx, browseCtx, waitRet, w, h, value>>
    /\ UNCHANGED <<buildVars, cfgVars, runVars>>

\* the screen sizes: 30 by 40 has the diagonal 50
InitPPI ==
    /\ w \in {0, 30}
    /\ h \in {0, 40}
    /\ value \in ValueStrings(MaxValueLen)
    /\ ppiRet = NoPPI
    /\ lock = "free" /\ gctx = "nil" /\ browseCtx = "none" /\ waitRet = "none"
    /\ config = EmptyConfig
    /\ pc = "start"
    /\ BuildIdle
    /\ CfgIdle
    /\ RunIdle

NextPPI == PixelsPerInchCall

SpecPPI == InitPPI /\ [][NextPPI]_vars

(***************************************************************************)
(* Properties of Run                                                       *)
(***************************************************************************)
\* the coordinator has begun (or completed) its send on channels[i]
TokenSent(i) == i \in BgIds /\ coord >= i

\* background task i has received its token
TokenReceived(i) == i \in BgIds /\ coord > i

MainWroteDone == mainKind = "done" /\ mainpc \in {"wrote", "returned"}

Cooperative(i) == bgKind[i] \in {"wait", "waitErr"}

\* C1 as stated: no termination token is sent on, or received from, a
\* background task's channel before the main task function has returned.
C1_NoTokenBeforeMainReturned ==
    \A i \in BgIds : TokenSent(i) => mainpc = "returned"

\* C1 amended: no termination token is sent on, or received from, a background
\* task's channel before the main task has written DONE to its done channel;
\* the main task need not have returned.
C1_NoTokenBeforeMainDone ==
    \A i \in BgIds : TokenSent(i) => MainWroteDone

\* a background task holds its token while the main task has not returned
C1_Witness == numBg >= 1 /\ TokenReceived(1) /\ mainpc = "wrote"

C3_ErrorDoesNotStallDrain ==
    (/\ runpc \in {"main", "wait"}
     /\ mainKind = "done"
     /\ \E j \in BgIds : bgKind[j] \in {"errEarly", "waitErr"}
     /\ \A j \in BgIds : bgKind[j] # "never")
    ~> (/\ runpc = "returned"
        /\ \A i \in BgIds : Cooperative(i) => TokenReceived(i))

\* C4: when the run hooks succeeded, the value Run returns is the error the
\* main task returned; a background task's error never changes it.
C4_RunReturnsMainError ==
    (runpc = "returned" /\ mainpc = "returned") => runResult = mainErr

\* Run has returned nil although a background task returned an error
C4_Witness ==
    runpc = "returned" /\ logged # {} /\ mainErr = "nil" /\ runResult = "nil"

(***************************************************************************)
(* Properties of NewAppInstance and Close                                  *)
(***************************************************************************)
TypeOf(m) == ModuleTable[m].Type

NameOf(m) == ModuleTable[m].Name

SingletonConstrained(t) == t \notin {"NONE", "OTHER", "SERVICE", "CLIENT"}

\* C5: AppInstance.Close closes the drivers in strict reverse order of
\* creation, each exactly once: driver N, N-1, ..., 1.
C5_CloseInReverseOrder ==
    pc = "closed" =>
        /\ Len(closeCalls) = Len(newCalls)
        /\ \A i \in 1..Len(closeCalls) : closeCalls[i] = newCalls[Len(newCalls) + 1 - i]

\* an instance of at least two drivers has been closed
C5_Witness == pc = "closed" /\ Len(closeCalls) >= 2 /\ closeErrs = {}

\* C6: when the Close of one or more drivers fails, AppInstance.Close still
\* visits every driver and returns nil; Close on a built instance does not fail.
C6_CloseIsBestEffort ==
    /\ (pc = "closed" /\ closeErrs # {}) =>
          /\ closeRet = "nil"
          /\ Len(closeCalls) = Len(newCalls)
          /\ SeqRange(closeCalls) = SeqRange(newCalls)
    /\ (pc = "panic" /\ result = "nil") => closeRet = "nil"

\* the first driver closed failed and the remaining drivers were still closed
C6_Witness ==
    /\ pc = "closed"
    /\ Len(closeCalls) >= 2
    /\ closeCalls[1] \in closeErrs

\* C7: after a successful NewAppInstance, byorder holds exactly the drivers of
\* the modules that have a construct hook, in the order of the module list.
C7_ByOrderFollowsModuleList ==
    pc = "built" =>
        this.byorder = SelectSeq(config.Modules, LAMBDA m : ModuleTable[m].New)

\* a build of two or more drivers whose module list has a module without hook
C7_Witness ==
    /\ pc = "built"
    /\ Len(this.byorder) >= 2
    /\ Len(this.byorder) < Len(config.Modules)

C9_TablesUnchangedOnDuplicateType ==
    lastReg.err = "DuplicateType" =>
        /\ lastReg.after.byname = lastReg.before.byname
        /\ lastReg.after.bytype = lastReg.before.bytype

\* C10 as stated: every driver a construct hook returned is appended to the
\* creation-order list whether or not its registration succeeds.
C10_AppendedRegardless ==
    lastReg.module # NIL =>
        lastReg.after.byorder = Append(lastReg.before.byorder, lastReg.module)

\* C10 amended: a driver a construct hook returned is appended to the
\* creation-order list only when its by-name and by-type registration both
\* succeed; on a duplicate-name or duplicate-type error the list is left as it
\* was and the builder itself closes the driver.
C10_AppendedOnlyWhenRegistered ==
    lastReg.module # NIL =>
        IF lastReg.err \in {"DuplicateName", "DuplicateType"}
        THEN /\ lastReg.after.byorder = lastReg.before.byorder
             /\ closeCalls = <<lastReg.module>>
        ELSE lastReg.after.byorder = Append(lastReg.before.byorder, lastReg.module)

\* a build failed on a module whose name was already registered
C10_Witness ==
    /\ lastReg.err = "DuplicateName"
    /\ pc = "failed"
    /\ closeCalls = <<lastReg.module>>

\* C11: when a module's construct hook fails, the build is aborted with the
\* hook's error: no construct hook of a later module is invoked and the
\* builder closes none of the drivers constructed earlier.
C11_HookFailureAbortsBuild ==
    hookRet.err = "ErrNew" =>
        /\ pc \in {"failed", "panic"}
        /\ result = "ErrNew"
        /\ config.Modules[idx - 1] = hookRet.module
        /\ newCalls = SelectSeq(SubSeq(config.Modules, 1, idx - 1),
                                LAMBDA m : ModuleTable[m].New)
        /\ closeCalls = <<>>

\* a hook failed after an earlier driver was built and before a later module
\* with a construct hook
C11_Witness ==
    /\ hookRet.err = "ErrNew"
    /\ pc = "failed"
    /\ Len(this.byorder) >= 1
    /\ idx <= Len(config.Modules)
    /\ ModuleTable[config.Modules[idx]].New

\* C12: when a construct hook fails but returned a driver, the builder closes
\* that driver before it returns the error.
C12_FailedDriverClosed ==
    (hookRet.err = "ErrNew" /\ hookRet.driver # NIL /\ pc # "new")
        => hookRet.driver \in SeqRange(closeCalls)

\* C13: after a build that failed part-way and the caller's Teardown on what
\* NewAppInstance returned, every driver constructed before the failure has
\* been closed.
C13_FailedBuildTornDown ==
    (pc = "panic" /\ result \notin {"none", "nil"})
        => SeqRange(this.byorder) \subseteq SeqRange(closeCalls)

(***************************************************************************)
(* Properties of the run hooks and of the wait for the background tasks    *)
(***************************************************************************)
\* the run-hook invocations for the modules of q: each with the driver
\* registered under the module's name, nil when there is none
HookCalls(q) == [k \in 1..Len(q) |-> <<q[k], MapGet(this.byname, NameOf(q[k]))>>]

HasRun(m) == ModuleTable[m].Run

NoTaskStarted == mainpc = "none" /\ coord = -1 /\ \A i \in BgIds : bgpc[i] = "none"

\* C14: if a run hook returns an error, Run returns that error without
\* starting a background task and without invoking the main task, and no later
\* module's run hook is invoked.
C14_RunHookErrorAbortsRun ==
    runResult = "ErrRun" =>
        /\ runpc = "returned"
        /\ NoTaskStarted
        /\ wg = 0
        /\ HasRun(this.modules[hookIdx - 1])
        /\ runCalls = HookCalls(SelectSeq(SubSeq(this.modules, 1, hookIdx - 1), HasRun))

\* a run hook failed with background tasks pending and a later module with a
\* run hook left
C14_Witness ==
    /\ runResult = "ErrRun"
    /\ numBg >= 1
    /\ hookIdx <= Len(this.modules)
    /\ HasRun(this.modules[hookIdx])

\* C15 as stated: once the tasks start, the run hooks invoked are those of the
\* constructed drivers whose module has a run hook, one each, in creation
\* order, and of no module without a constructed driver.
C15_RunHooksOnlyForDrivers ==
    mainpc # "none" => runCalls = HookCalls(SelectSeq(this.byorder, HasRun))

\* C15 amended: in one call of Run, a run hook is invoked exactly once for
\* every module of the instance that has a run hook, in module-list order, with
\* the module's driver or nil when the module has no constructed driver, and
\* all run hooks finish before any background task or the main task starts.
C15_RunHooksForEveryModule ==
    /\ mainpc # "none" => runCalls = HookCalls(SelectSeq(this.modules, HasRun))
    /\ runpc = "hooks" => NoTaskStarted
    /\ \A k \in 1..Len(runCalls) :
          runCalls[k][2] = NIL <=> ~ModuleTable[runCalls[k][1]].New

\* the tasks run after two run hooks, one of them invoked with a nil driver
C15_Witness ==
    /\ mainpc # "none"
    /\ Len(runCalls) >= 2
    /\ \E k \in 1..Len(runCalls) : runCalls[k][2] = NIL

\* C16: while a background task that was started has not returned, Run does
\* not return, whatever the main task and the other tasks did; a task that
\* never observes its channel keeps Run from ever returning.
C16_RunWaitsForEveryTask ==
    /\ \A i \in BgIds : bgpc[i] \notin {"none", "returned"} => runpc # "returned"
    /\ (\E i \in BgIds : bgKind[i] = "never" /\ bgpc[i] # "none") => runpc # "returned"

\* the main task and another background task have returned and Run still
\* waits for a task that never observes its channel
C16_Witness ==
    /\ runpc = "wait"
    /\ mainKind = "done"
    /\ mainpc = "returned"
    /\ \E i \in BgIds : bgKind[i] = "never"
    /\ \E j \in BgIds : bgpc[j] = "returned"

(***************************************************************************)
(* Properties of the end-to-end scenario                                   *)
(***************************************************************************)
\* the counter of the scenario's background task: it starts at one and the
\* task decrements it when it receives its signal
E2ECounter == 1 - Cardinality({i \in BgIds : TokenReceived(i)})

E2ERunDone == runpc = "returned" /\ E2ECounter = 0

\* C17 as stated: with a main task that returns immediately, Run returns and
\* the counter has reached zero.
C17_RunReturnsAfterMainReturns ==
    (runpc = "main") ~> E2ERunDone

\* C17 amended: with a main task that writes DONE to its done channel and then
\* returns, Run returns, the counter has reached zero, and the following Close
\* closes the drivers in the order sensor, bus, logger.
C17_EndToEnd ==
    /\ (runpc = "main" /\ mainKind = "done") ~> E2ERunDone
    /\ [](pc \in {"new", "built", "closed"} => config.Modules = <<1, 8, 9>>)
    /\ []((runpc = "returned" /\ mainpc = "returned") => E2ECounter = 0)
    /\ []((pc = "closed" /\ mainpc = "returned") => closeCalls = <<9, 8, 1>>)

\* the scenario has run to its end
C17_Witness ==
    /\ pc = "closed"
    /\ mainpc = "returned"
    /\ runResult = "nil"
    /\ E2ECounter = 0
    /\ closeCalls = <<9, 8, 1>>

(***************************************************************************)
(* Properties of NewAppConfig                                              *)
(***************************************************************************)
\* the registered modules a module requires directly
Deps(m) == {ModuleByName(n) : n \in SeqRange(requires[m])} \ {NIL}

RECURSIVE ReachN(_, _)
ReachN(S, k) == IF k = 0 THEN S ELSE ReachN(S \cup UNION {Deps(x) : x \in S}, k - 1)

\* the modules a module requires, directly or not
Reachable(m) == ReachN(Deps(m), Cardinality(RegIds))

Acyclic == \A m \in RegIds : m \notin Reachable(m)

AllKnown ==
    /\ \A m \in RegIds : \A n \in SeqRange(requires[m]) : ModuleByName(n) # NIL
    /\ \A n \in SeqRange(names) : ModuleByName(n) # NIL

PositionOf(q, m) == CHOOSE i \in 1..Len(q) : q[i] = m

Requested == {ModuleByName("logger")} \cup {ModuleByName(n) : n \in SeqRange(names)}

\* C18: for an acyclic registry and requested names that are registered,
\* NewAppConfig produces a module list that holds every requested module and
\* every transitive dependency, each module after all the modules it requires.
C18_ModuleListRespectsDependencies ==
    /\ (pc # "start" /\ Acyclic /\ AllKnown) => cfgErr = "nil"
    /\ cfgErr = "nil" =>
          /\ Requested \subseteq SeqRange(config.Modules)
          /\ \A m \in SeqRange(config.Modules) :
                /\ Reachable(m) \subseteq SeqRange(config.Modules)
                /\ \A d \in Deps(m) :
                      /\ d \in SeqRange(config.Modules)
                      /\ PositionOf(config.Modules, d) < PositionOf(config.Modules, m)

\* two requested names were merged into a list of three modules, one of which
\* requires the two others
C18_Witness ==
    /\ cfgErr = "nil"
    /\ Len(names) = 2
    /\ names[1] # names[2]
    /\ Len(config.Modules) = 3
    /\ \E m \in RegIds : Cardinality(Deps(m)) = 2

RECURSIVE DedupFirst(_, _)
DedupFirst(q, seen) ==
    IF q = <<>> THEN <<>>
    ELSE IF Head(q) \in seen THEN DedupFirst(Tail(q), seen)
    ELSE <<Head(q)>> \o DedupFirst(Tail(q), seen \cup {Head(q)})

RECURSIVE ConcatResolved(_)
ConcatResolved(ns) ==
    IF ns = <<>> THEN <<>>
    ELSE ModuleWithDependencies(Head(ns)).modules \o ConcatResolved(Tail(ns))

\* C19: no module appears twice in the module list: each occurs once, at its
\* first-seen position, and a build constructs one driver for it.
C19_NoModuleTwice ==
    cfgErr = "nil" =>
        /\ IsInjective(config.Modules)
        /\ config.Modules = DedupFirst(ConcatResolved(<<"logger">> \o names), {})
        /\ IsInjective(newCalls)
        /\ pc = "built" =>
              \A m \in SeqRange(config.Modules) :
                  Cardinality({i \in 1..Len(this.byorder) : this.byorder[i] = m}) = 1

\* a module was requested directly and is also a dependency of another
\* requested module, and the build succeeded
C19_Witness ==
    /\ cfgErr = "nil"
    /\ pc = "built"
    /\ Len(names) = 2
    /\ ModuleByName(names[1]) \in Deps(ModuleByName(names[2]))
    /\ ModuleByName(names[1]) # LoggerModule
    /\ Len(config.Modules) = 3

\* C20: if resolving a requested name fails, AppendModulesByName returns no
\* list with the error, NewAppConfig yields the empty configuration, and
\* NewAppInstance on it fails without constructing a driver.
C20_NoPartialModuleList ==
    /\ \A k \in 0..Len(names) :
          LET r == AppendModulesByName(<<LoggerModule>>, SubSeq(names, 1, k)) IN
          r.err # "nil" => r.modules = <<>>
    /\ cfgErr \notin {"none", "nil"} =>
          /\ config = EmptyConfig
          /\ newCalls = <<>>
          /\ this = NoInstance
          /\ pc \in {"config", "failed", "panic"}
          /\ pc # "config" => result = "ErrAppError"

\* the second requested name failed to resolve after the first had resolved,
\* and NewAppInstance has failed
C20_Witness ==
    /\ cfgErr = "CyclicDependency"
    /\ Len(names) = 2
    /\ ModuleWithDependencies("logger").err = "nil"
    /\ ModuleWithDependencies(names[1]).err = "nil"
    /\ pc = "failed"
    /\ result = "ErrAppError"

(***************************************************************************)
(* Properties of the start of NewAppInstance                               *)
(***************************************************************************)
\* C21: if the configuration has no option schema, or parsing the arguments
\* against it fails, NewAppInstance returns an error and no instance, and no
\* construct hook has been invoked.
C21_BadFlagsAbortBeforeConstruction ==
    (config.AppFlags # "ok" /\ pc # "config" /\ cfgErr = "none") =>
        /\ pc \in {"failed", "panic"}
        /\ result = (IF config.AppFlags = "nil" THEN "ErrAppError" ELSE "ParseError")
        /\ this = NoInstance
        /\ newCalls = <<>>
        /\ closeCalls = <<>>

\* parsing the arguments failed for a configuration whose first module has a
\* construct hook
C21_Witness ==
    /\ config.AppFlags = "badargs"
    /\ pc = "failed"
    /\ result = "ParseError"
    /\ Len(config.Modules) >= 2
    /\ ModuleTable[config.Modules[1]].New

(***************************************************************************)
(* Properties of the instance's tables during Run and after Close          *)
(***************************************************************************)
\* the by-name map, the by-type map and the creation-order list
Tables(inst) == <<inst.byname, inst.bytype, inst.byorder>>

\* the instance as NewAppInstance handed it to the caller of Run
BuiltInstance == BuildAll(config.Modules, Len(config.Modules)).inst

\* C22: from the start of the first task until Run returns, the by-name map,
\* the by-type map and the creation-order list are not modified: their
\* contents when Run returns are their contents when Run was called.
C22_TablesUnchangedDuringRun ==
    runpc \in {"main", "wait", "returned"} =>
        /\ Tables(this) = Tables(BuiltInstance)
        /\ this.modules = config.Modules

\* Run has returned after a main task and a background task ran on an
\* instance with two drivers, one of them registered by type
C22_Witness ==
    /\ runpc = "returned"
    /\ mainpc = "returned"
    /\ numBg >= 1
    /\ Len(this.byorder) >= 2
    /\ DOMAIN this.bytype # {}
    /\ Len(runCalls) >= 1

\* the names a caller may hand to ModuleInstance
LookupNames == {ModuleTable[m].Name : m \in ModuleIds} \cup DOMAIN module_name_map

\* C23: after AppInstance.Close has returned, the by-name map, the by-type map
\* and the creation-order list are empty and ModuleInstance returns no driver
\* for any name.
C23_TablesEmptyAfterClose ==
    pc = "closed" =>
        /\ this.byname = EmptyMap
        /\ this.bytype = EmptyMap
        /\ this.byorder = <<>>
        /\ \A name \in LookupNames : ModuleInstance(this, name) = NIL

\* an instance of two drivers, on which ModuleInstance found the logger by its
\* reserved word and another driver by name, has been closed
C23_Witness ==
    /\ pc = "closed"
    /\ Len(closeCalls) >= 2
    /\ ModuleInstance(BuiltInstance, "logger") = LoggerModule
    /\ \E name \in LookupNames \ {"logger"} : ModuleInstance(BuiltInstance, name) # NIL
    /\ ModuleInstance(this, "logger") = NIL

(***************************************************************************)
(* Properties of the order of the drain                                    *)
(***************************************************************************)
\* background task i has taken a token from its channel
GotToken(i) == bgKind[i] \notin {"errEarly", "never"} /\ bgpc[i] \in {"got", "returned"}

\* C24: termination tokens are handed out in task-index order: the
\* coordinator does not reach the send to task i+1 before task i has taken its
\* token, so a task holds a token only if every task before it holds one.
C24_TokensInIndexOrder ==
    \A i \in BgIds :
        /\ coord > i => GotToken(i)
        /\ GotToken(i) => \A j \in 1..(i - 1) : GotToken(j)
        /\ bgpc[i] = "got" => coord > i

\* the first task holds its token and the coordinator is at the send to the
\* second task, which waits
C24_Witness ==
    /\ numBg >= 2
    /\ coord = 2
    /\ bgpc[1] = "got"
    /\ bgpc[2] = "waiting"

(***************************************************************************)
(* Properties of the mdns tool                                             *)
(***************************************************************************)
\* every background task has been sent its token and Run has returned
Drained == runpc = "returned" /\ \A i \in BgIds : coord > i

\* C25: the expiry of the timeout and a caught signal take the same path:
\* either one ends the main task's wait, the main task returns, and the drain
\* follows: every background task is signalled and Run returns.
C25_TimeoutAndSignalDrain ==
    /\ (waitRet = "timeout") ~> (mainpc = "returned" /\ Drained)
    /\ (waitRet = "signal") ~> (mainpc = "returned" /\ Drained)

\* C29: GetContext does not return before SetContext has stored the context:
\* the lock InitContext took is released by SetContext only, after the store,
\* so Browse is never called with an unset context.
C29_GetContextAfterSetContext ==
    /\ [](browseCtx \in {"none", "ctx"})
    /\ [](\A i \in BgIds : bgpc[i] \in {"locked", "browsing"} =>
              gctx = "ctx" /\ mainpc \notin {"none", "running", "stored"})
    /\ [][(lock = "InitContext" /\ lock' # lock) =>
              (mainpc = "stored" /\ mainpc' = "set" /\ gctx = "ctx")]_vars

\* Browse was called with the stored context while MainLoop still waits for
\* the signal or the timeout
C29_Witness ==
    /\ browseCtx = "ctx"
    /\ bgpc[1] = "waiting"
    /\ mainpc = "set"
    /\ lock = "free"

\* C30: a main task that writes DONE to its done channel once is not blocked
\* for ever by the write: the coordinator is at its receive whenever the main
\* task is about to write, and the write completes, for any number of
\* background tasks, zero included.
C30_MainDoneWriteIsReceived ==
    /\ []((mainKind = "done" /\ mainpc = "running") => coord = 0)
    /\ (mainKind = "done" /\ mainpc = "running") ~> (mainpc \in {"wrote", "returned"})
    /\ [](mainpc \in {"wrote", "returned"} /\ mainKind = "done" => coord >= 1)

\* the write of DONE completed in a run without background tasks
C30_Witness ==
    /\ numBg = 0
    /\ mainKind = "done"
    /\ mainpc = "wrote"
    /\ coord = 1

(***************************************************************************)
(* Properties of PixelsPerInch                                             *)
(***************************************************************************)
IsDecimalInteger(s) == s # <<>> /\ \A j \in 1..Len(s) : IsDecimalDigit(s[j])

\* C26: PixelsPerInch returns the number itself when the value string is a
\* pure decimal integer, for any screen size, and returns 0 without error when
\* the value string is empty.
C26_DecimalValueIsReturned ==
    ppiRet.err # "none" =>
        /\ IsDecimalInteger(value) =>
              ppiRet = [ppi |-> DecimalValue(value), err |-> "nil"]
        /\ value = <<>> => ppiRet = [ppi |-> 0, err |-> "nil"]

(***************************************************************************)
(* Properties of the registration of a driver and of the construct hooks   *)
(***************************************************************************)
\* C27: when the registration of a just-built driver fails, the builder calls
\* Close on that driver once, constructs no further module, does not retry,
\* and returns the registration error.
C27_RegistrationFailureClosesDriver ==
    lastReg.err \notin {"none", "nil"} =>
        /\ closeCalls = <<lastReg.module>>
        /\ newCalls[Len(newCalls)] = lastReg.module
        /\ config.Modules[idx - 1] = lastReg.module
        /\ IsInjective(newCalls)
        /\ pc \in {"failed", "panic"}
        /\ result = lastReg.err

\* the instance the last construct hook was handed
HookView ==
    IF hookRet.module # NIL /\ lastReg.module = hookRet.module
    THEN lastReg.before
    ELSE this

\* C28: when a module's construct hook runs after the modules it requires
\* were constructed, the hook retrieves the driver of each of them from the
\* instance; the hook of linux/gpio obtains the driver of linux/filepoll.
C28_HookFindsItsDependencies ==
    hookRet.module # NIL =>
        LET m == hookRet.module IN
        \A k \in 1..Len(ModuleRequires(m)) :
            \A j \in 1..(idx - 2) :
                NameOf(config.Modules[j]) = ModuleRequires(m)[k] =>
                    /\ ModuleInstance(HookView, ModuleRequires(m)[k]) = config.Modules[j]
                    /\ ModuleInstance(HookView, HookLookups(m)[k]) = config.Modules[j]

(***************************************************************************)
(* Properties of repeated Close and of the place of the logger             *)
(***************************************************************************)
\* C31: over a build, successful or failed, and any number of calls of
\* AppInstance.Close after it, Close is invoked at most once on each driver,
\* and a call of AppInstance.Close after the first closes no driver again and
\* completes without failure.
C31_CloseIsIdempotent ==
    /\ IsInjective(closeCalls)
    /\ closeRet = "nil" => pc = "closed"

\* the modules NewAppConfig resolves for the logger
LoggerModules == ModuleWithDependencies("logger").modules

\* m comes before n in q, both being in q
Before(q, m, n) ==
    /\ m \in SeqRange(q) /\ n \in SeqRange(q)
    /\ PositionOf(q, m) < PositionOf(q, n)

\* C32 as stated: the logger driver is constructed before the driver of every
\* requested module and closed after all of them.
C32_LoggerBeforeEveryRequested ==
    cfgErr = "nil" =>
        \A m \in Requested \ {LoggerModule} :
            /\ Before(config.Modules, LoggerModule, m)
            /\ m \in SeqRange(newCalls) => Before(newCalls, LoggerModule, m)
            /\ pc = "closed" => Before(closeCalls, m, LoggerModule)

\* C32 amended: the logger and its dependencies are the head of the module
\* list whatever names are requested; the logger driver is constructed before,
\* and closed by AppInstance.Close after, the driver of every module of the
\* list that is neither the logger nor one of the logger's dependencies; a
\* requested module the logger depends on is constructed before the logger
\* and closed after it.
C32_LoggerAndDependenciesFirst ==
    cfgErr = "nil" =>
        /\ Len(LoggerModules) <= Len(config.Modules)
        /\ SubSeq(config.Modules, 1, Len(LoggerModules)) = LoggerModules
        /\ LoggerModules[Len(LoggerModules)] = LoggerModule
        /\ \A m \in SeqRange(config.Modules) :
              IF m \in SeqRange(LoggerModules) \ {LoggerModule}
              THEN /\ Before(config.Modules, m, LoggerModule)
                   /\ LoggerModule \in SeqRange(newCalls) => Before(newCalls, m, LoggerModule)
                   /\ pc = "closed" => Before(closeCalls, LoggerModule, m)
              ELSE m # LoggerModule =>
                   /\ Before(config.Modules, LoggerModule, m)
                   /\ m \in SeqRange(newCalls) => Before(newCalls, LoggerModule, m)
                   /\ pc = "closed" => Before(closeCalls, m, LoggerModule)

\* a logger that requires the bus, with the bus and the sensor requested, was
\* built and closed: bus, logger, sensor up and sensor, logger, bus down
C32_Witness ==
    /\ cfgErr = "nil"
    /\ pc = "closed"
    /\ names = <<"bus", "sensor">>
    /\ config.Modules = <<8, 1, 9>>
    /\ newCalls = <<8, 1, 9>>
    /\ closeCalls = <<9, 1, 8>>

====
